---- MODULE Spec2Model ----
(***************************************************************************)
(* StarEditor: the per-frame update of the scene editor (src/src/editor.rs) *)
(* and its scene persistence (src/src/save.rs).                            *)
(*                                                                         *)
(* Representation.  f32 values are modelled by integers: the inputs are    *)
(* drawn so that every product and quotient the code computes is an exact  *)
(* integer (pointer coordinates on a grid of 50 px, zoom in {0.1, 1, 5}).  *)
(* zoom is held in hundredths (ZoomUnit = 1.00).  Rust's 0-based indices   *)
(* are kept: object i of the code is objects[i + 1] of the sequence.       *)
(* Option<T> is a sequence of length 0 (None) or 1 (Some).                 *)
(***************************************************************************)
EXTENDS Integers, Sequences, FiniteSets, TLC

VARIABLES
    selected,      \* StarEditor.selected     : Option<usize>
    objects,       \* StarEditor.objects      : Vec<GameObject>
    zoom,          \* StarEditor.zoom         : f32, in hundredths
    dragging,      \* StarEditor.dragging     : Option<usize>
    drag_start,    \* StarEditor.drag_start   : Option<Pos2>
    view_offset,   \* StarEditor.view_offset  : [f32; 2]
    pan_start,     \* StarEditor.pan_start    : Option<Pos2>
    image_cache,   \* StarEditor.image_cache  : HashMap<String, TextureHandle>
    file,          \* the file "scene.ron": None when missing, else Some(text)
    images,        \* the image files on disk: path -> pixel version, 0 = none
    canvas_drag,   \* egui: the canvas widget is being dragged (a button is held on it)
    panicked,      \* the process has terminated by a panic
    last,          \* what the latest step was: the kind of input of the frame (history)
    decoded,       \* the paths load_image was called on in the latest frame (history)
    prev_pointer,  \* the canvas pointer position of the latest frame, None when the
                   \* canvas was not interacted with (history)
    before,        \* the number of objects when the latest step began (history)
    drag_origin    \* where the current drag began: the anchor and the dragged
                   \* object's position at the press, the zoom, and the number of
                   \* frames since; None when no drag is followed (history)

vars == <<selected, objects, zoom, dragging, drag_start, view_offset, pan_start,
          image_cache, file, images, canvas_drag, panicked, last, decoded,
          prev_pointer, before, drag_origin>>

----------------------------------------------------------------------------
(* Bounds of the model *)

\* Add Object is disabled beyond this many objects.
MaxObjects == 2
\* The most scroll events in one frame.
MaxScrollEvents == 2
\* A frame is explored only while every object coordinate stays within
\* -MaxCoord .. MaxCoord (world units).
MaxCoord == 10
\* ... and every view_offset coordinate within -MaxOffset .. MaxOffset (px).
MaxOffset == 100
\* The frames of one drag that drag_origin counts.
MaxTracked == 2

----------------------------------------------------------------------------
(* Option *)

None == <<>>
Some(x) == <<x>>
Unwrap(o) == o[1]

----------------------------------------------------------------------------
(* Program constants *)

\* zoom = 1.0 in the model's fixed-point representation
ZoomUnit == 100
ZoomInit == 100
ZoomMin == 10
ZoomMax == 500
\* zoom_delta * 0.01, in hundredths of zoom per scroll unit
ZoomSensitivity == 1
\* world -> pixel scale of positions and of sizes
PosScale == 10
SizeScale == 20
\* key pan step, px
PanStep == 10

\* rect.left_top() of the canvas: fixed by the layout of the two side panels
\* and the heading above the canvas.
RectLeftTop == <<200, 50>>

\* The pointer positions the frames draw from (screen px).
Points == { <<200, 50>>, <<250, 150>> }

\* The scroll deltas of one event.
ScrollDeltas == { -500, 500 }

\* The image paths of the model.  "" is what unwrap_or_default gives for None.
DefaultPath == ""
PngPath == "a.png"
Paths == { DefaultPath, PngPath }

----------------------------------------------------------------------------
(* GameObject and the Add Object default *)

DigitChars == <<"0", "1", "2", "3", "4", "5", "6", "7", "8", "9">>
DigitSet == { DigitChars[k] : k \in 1..10 }
DigitVal(c) == (CHOOSE k \in 1..10 : DigitChars[k] = c) - 1

\* The decimal digits of a natural number, one character each.
RECURSIVE NatChars(_)
NatChars(n) ==
    IF n < 10 THEN <<DigitChars[n + 1]>>
    ELSE NatChars(n \div 10) \o <<DigitChars[(n % 10) + 1]>>

RECURSIVE Join(_)
Join(cs) == IF cs = <<>> THEN "" ELSE Head(cs) \o Join(Tail(cs))

\* format!("Object {}", id)
ObjectName(id) == "Object " \o Join(NatChars(id))

\* (mutant) ids are counted from 1
NewObject_OneBased(id) ==
    [ id         |-> id + 1,
      name       |-> ObjectName(id),
      position   |-> <<0, 0>>,
      rotation   |-> 0,
      scale      |-> <<1, 1>>,
      image_path |-> None ]

NewObject(id) ==
    [ id         |-> id,
      name       |-> ObjectName(id),
      position   |-> <<0, 0>>,
      rotation   |-> 0,
      scale      |-> <<1, 1>>,
      image_path |-> None ]

\* objects[i] with the code's 0-based index
Obj(objs, i) == objs[i + 1]
InRange(objs, i) == i >= 0 /\ i < Len(objs)

----------------------------------------------------------------------------
(* ron::ser::to_string and ron::de::from_str on Vec<GameObject>.            *)
(* The text is a sequence of tokens; a number is written digit by digit,    *)
(* an f32 with its fractional part (always ".0" for the model's values).    *)

IntChars(n) == IF n < 0 THEN <<"-">> \o NatChars(-n) ELSE NatChars(n)
FloatChars(x) == IntChars(x) \o <<".", "0">>
StrChars(str) == <<"\"", str, "\"">>
\* (mutant) the two coordinates are written in the opposite order
PairChars_Swapped(v) ==
    <<"(">> \o FloatChars(v[2]) \o <<",">> \o FloatChars(v[1]) \o <<")">>

PairChars(v) == <<"(">> \o FloatChars(v[1]) \o <<",">> \o FloatChars(v[2]) \o <<")">>
OptStrChars(o) ==
    IF o = None THEN <<"None">>
    ELSE <<"Some", "(">> \o StrChars(Unwrap(o)) \o <<")">>

SerObject(o) ==
    <<"(">>
    \o <<"id", ":">> \o NatChars(o.id) \o <<",">>
    \o <<"name", ":">> \o StrChars(o.name) \o <<",">>
    \o <<"position", ":">> \o PairChars(o.position) \o <<",">>
    \o <<"rotation", ":">> \o FloatChars(o.rotation) \o <<",">>
    \o <<"scale", ":">> \o PairChars(o.scale) \o <<",">>
    \o <<"image_path", ":">> \o OptStrChars(o.image_path)
    \o <<")">>

RECURSIVE SerObjects(_, _)
SerObjects(objs, k) ==
    IF k > Len(objs) THEN <<>>
    ELSE (IF k > 1 THEN <<",">> ELSE <<>>) \o SerObject(objs[k]) \o SerObjects(objs, k + 1)

to_string(objs) == <<"[">> \o SerObjects(objs, 1) \o <<"]">>

(* The parser walks the text against the pattern of one object.  A pattern *)
(* item is a token to expect, or a slot: "<nat>", "<float>", "<str>" or     *)
(* "<optstr>".  The values of the slots are collected in order.            *)

ObjectPattern ==
    << "(", "id", ":", "<nat>", ",",
       "name", ":", "\"", "<str>", "\"", ",",
       "position", ":", "(", "<float>", ",", "<float>", ")", ",",
       "rotation", ":", "<float>", ",",
       "scale", ":", "(", "<float>", ",", "<float>", ")", ",",
       "image_path", ":", "<optstr>", ")" >>

ParseFail == [ok |-> FALSE, i |-> 0, vals |-> <<>>]
At(t, i) == IF i >= 1 /\ i <= Len(t) THEN t[i] ELSE "<eof>"

\* The digits from token i on: their value and the first token after them
RECURSIVE ReadDigits(_, _, _)
ReadDigits(t, i, acc) ==
    IF At(t, i) \in DigitSet
    THEN ReadDigits(t, i + 1, acc * 10 + DigitVal(At(t, i)))
    ELSE [i |-> i, v |-> acc]

\* One pattern item against the text at token i: the next token and the
\* values read (none for a token that is only expected)
Slot(t, i, item) ==
    CASE item = "<nat>" ->
           LET n == ReadDigits(t, i, 0)
           IN  IF n.i = i THEN ParseFail
               ELSE [ok |-> TRUE, i |-> n.i, vals |-> <<n.v>>]
      [] item = "<float>" ->
           \* an integer, then an optional fraction; the values of the model
           \* have the fraction 0
           LET j == IF At(t, i) = "-" THEN i + 1 ELSE i
               n == ReadDigits(t, j, 0)
               f == ReadDigits(t, n.i + 1, 0)
               x == IF j = i THEN n.v ELSE -n.v
           IN  IF n.i = j THEN ParseFail
               ELSE IF At(t, n.i) # "." THEN [ok |-> TRUE, i |-> n.i, vals |-> <<x>>]
               ELSE IF f.i = n.i + 1 \/ f.v # 0 THEN ParseFail
               ELSE [ok |-> TRUE, i |-> f.i, vals |-> <<x>>]
      [] item = "<str>" ->
           IF i > Len(t) THEN ParseFail
           ELSE [ok |-> TRUE, i |-> i + 1, vals |-> <<t[i]>>]
      [] item = "<optstr>" ->
           IF At(t, i) = "None" THEN [ok |-> TRUE, i |-> i + 1, vals |-> <<None>>]
           ELSE IF /\ At(t, i) = "Some" /\ At(t, i + 1) = "(" /\ At(t, i + 2) = "\""
                   /\ At(t, i + 4) = "\"" /\ At(t, i + 5) = ")"
                THEN [ok |-> TRUE, i |-> i + 6, vals |-> <<Some(t[i + 3])>>]
                ELSE ParseFail
      [] OTHER ->
           IF At(t, i) = item THEN [ok |-> TRUE, i |-> i + 1, vals |-> <<>>]
           ELSE ParseFail

\* The pattern from item k on against the text from token i on
RECURSIVE Match(_, _, _, _)
MatchRest(t, k, vals, r) ==
    IF r.ok THEN Match(t, r.i, k + 1, vals \o r.vals) ELSE ParseFail

Match(t, i, k, vals) ==
    IF k > Len(ObjectPattern) THEN [ok |-> TRUE, i |-> i, vals |-> vals]
    ELSE MatchRest(t, k, vals, Slot(t, i, ObjectPattern[k]))

\* The GameObject of the slot values, in the order of ObjectPattern
FromSlots(v) ==
    [ id         |-> v[1],
      name       |-> v[2],
      position   |-> <<v[3], v[4]>>,
      rotation   |-> v[5],
      scale      |-> <<v[6], v[7]>>,
      image_path |-> v[8] ]

\* The objects of the list from token i on, separated by commas, up to "]"
RECURSIVE ReadObjects(_, _, _)
ReadRest(t, acc, m) ==
    IF m.ok THEN ReadObjects(t, m.i, Append(acc, FromSlots(m.vals)))
    ELSE [ok |-> FALSE, v |-> <<>>]

ReadObjects(t, i, acc) ==
    IF At(t, i) = "]"
    THEN IF i = Len(t) THEN [ok |-> TRUE, v |-> acc] ELSE [ok |-> FALSE, v |-> <<>>]
    ELSE IF acc # <<>> /\ At(t, i) # "," THEN [ok |-> FALSE, v |-> <<>>]
    ELSE ReadRest(t, acc, Match(t, IF acc = <<>> THEN i ELSE i + 1, 1, <<>>))

\* from_str::<Vec<GameObject>>: Ok(objs) as [ok |-> TRUE, v |-> objs], or Err
from_str(t) ==
    IF At(t, 1) = "[" THEN ReadObjects(t, 2, <<>>) ELSE [ok |-> FALSE, v |-> <<>>]

----------------------------------------------------------------------------
(* save.rs *)

\* fs::write: creates or truncates the file, then writes the text.
\* io is "ok", "create_err" (nothing is touched) or "write_err" (truncated).
fs_write(f, text, io) ==
    CASE io = "ok"         -> Some(text)
      [] io = "create_err" -> f
      [] io = "write_err"  -> Some(<<>>)

\* save_scene(objects, "scene.ron"): the file afterwards
save_scene(objs, f, io) == fs_write(f, to_string(objs), io)

\* fs::read_to_string: Err when the file is missing or cannot be read
fs_read_to_string(f, io) ==
    IF f = None \/ io # "ok" THEN [ok |-> FALSE, v |-> <<>>]
    ELSE [ok |-> TRUE, v |-> Unwrap(f)]

\* if let Ok(content) = ... { from_str(&content) }: the Err is carried on
ParseContent(content) == IF content.ok THEN from_str(content.v) ELSE content

\* if let Ok(objs) = ... { return objs; }  Vec::new()
OkOrEmpty(r) == IF r.ok THEN r.v ELSE <<>>

\* load_scene("scene.ron")
load_scene(f, io) == OkOrEmpty(ParseContent(fs_read_to_string(f, io)))

----------------------------------------------------------------------------
(* The input of one frame: what egui reports to update().                   *)
(*   label          Some(i) when hierarchy label i is clicked               *)
(*   add, save, load   the three buttons; save_io and load_io the outcome   *)
(*                  of the file system call                                 *)
(*   edit           Some([field, value]) when an inspector widget changes   *)
(*                  a field of the selected object                          *)
(*   scroll         the vertical deltas of the frame's Scroll events        *)
(*   drag_started, drag_released, pointer_pos   the canvas response         *)
(*   secondary_down, keys   the pointer's secondary button, the keys down   *)

NoInput ==
    [ label |-> None, add |-> FALSE, save |-> FALSE, save_io |-> "ok",
      load |-> FALSE, load_io |-> "ok", edit |-> None, scroll |-> <<>>,
      drag_started |-> FALSE, drag_released |-> FALSE, pointer_pos |-> None,
      secondary_down |-> FALSE, keys |-> {} ]

\* The editor's fields next to the world they act on, as one record: the
\* three panels of update() are functions from such a record to the next.
Snapshot ==
    [ selected |-> selected, objects |-> objects, zoom |-> zoom,
      dragging |-> dragging, drag_start |-> drag_start,
      view_offset |-> view_offset, pan_start |-> pan_start,
      image_cache |-> image_cache, file |-> file,
      panicked |-> FALSE, decoded |-> {} ]

----------------------------------------------------------------------------
(* SidePanel::left("hierarchy") *)

HierarchySelect(s, in) ==
    IF in.label # None /\ InRange(s.objects, Unwrap(in.label))
    THEN [s EXCEPT !.selected = in.label]
    ELSE s

\* (mutant) the new object is put in front of the list
AddObject_AtFront(s, in) ==
    IF in.add
    THEN [s EXCEPT !.objects = <<NewObject(Len(@))>> \o @]
    ELSE s

AddObject(s, in) ==
    IF in.add
    THEN [s EXCEPT !.objects = Append(@, NewObject(Len(@)))]
    ELSE s

SaveScene(s, in) ==
    IF in.save
    THEN [s EXCEPT !.file = save_scene(s.objects, @, in.save_io)]
    ELSE s

\* (mutant) a load that fails leaves the scene as it is
LoadScene_KeepOnError(s, in) ==
    IF in.load /\ ParseContent(fs_read_to_string(s.file, in.load_io)).ok
    THEN [s EXCEPT !.objects = load_scene(s.file, in.load_io)]
    ELSE s

LoadScene(s, in) ==
    IF in.load
    THEN [s EXCEPT !.objects = load_scene(s.file, in.load_io)]
    ELSE s

Hierarchy(s, in) == LoadScene(SaveScene(AddObject(HierarchySelect(s, in), in), in), in)

----------------------------------------------------------------------------
(* SidePanel::right("inspector") *)

\* StarEditor::load_image: None when the file cannot be opened or decoded,
\* else the texture made of the file's pixels
load_image(path) == IF images[path] = 0 THEN None ELSE Some(images[path])

\* image_path.clone().unwrap_or_default()
unwrap_or_default(o) == IF o = None THEN DefaultPath ELSE Unwrap(o)

\* (mutant) the image is decoded whether or not the cache holds the path
CacheFill_Always(s, path) ==
    LET tex == load_image(path)
    IN  [s EXCEPT !.decoded = @ \cup {path},
                  !.image_cache = IF tex # None
                                  THEN (path :> Unwrap(tex)) @@ @
                                  ELSE @]

\* The cache fill of lines 91-95
CacheFill(s, path) ==
    IF path \notin DOMAIN s.image_cache
    THEN LET tex == load_image(path)
         IN  [s EXCEPT !.decoded = @ \cup {path},
                       !.image_cache = IF tex # None
                                       THEN (path :> Unwrap(tex)) @@ @
                                       ELSE @]
    ELSE s

\* The widgets of lines 100-115 writing through &mut obj
ApplyEdit(obj, edit) ==
    IF edit = None THEN obj
    ELSE LET e == Unwrap(edit)
         IN  CASE e.field = "name"       -> [obj EXCEPT !.name = e.value]
               [] e.field = "position_x" -> [obj EXCEPT !.position[1] = e.value]
               [] e.field = "position_y" -> [obj EXCEPT !.position[2] = e.value]
               [] e.field = "rotation"   -> [obj EXCEPT !.rotation = e.value]
               [] e.field = "scale_x"    -> [obj EXCEPT !.scale[1] = e.value]
               [] e.field = "scale_y"    -> [obj EXCEPT !.scale[2] = e.value]

\* obj.image_path = Some(path.clone()), line 98
SetImagePath(obj, path) == [obj EXCEPT !.image_path = Some(path)]

\* lines 89-115, for the selected object i with its path
Inspect(s, i, path, in) ==
    [CacheFill(s, path) EXCEPT !.objects[i + 1] =
                                   ApplyEdit(SetImagePath(@, path), in.edit)]

Inspector(s, in) ==
    IF s.selected = None THEN s
    ELSE IF ~InRange(s.objects, Unwrap(s.selected))
         THEN \* self.objects[i]: index out of bounds
              [s EXCEPT !.panicked = TRUE]
         ELSE Inspect(s, Unwrap(s.selected),
                      unwrap_or_default(Obj(s.objects, Unwrap(s.selected)).image_path), in)

----------------------------------------------------------------------------
(* CentralPanel: zoom *)

RECURSIVE Sum(_)
Sum(seq) == IF seq = <<>> THEN 0 ELSE Head(seq) + Sum(Tail(seq))

\* (mutant) the upper limit is not applied
Clamp_NoUpper(x, lo, hi) == IF x < lo THEN lo ELSE x

Clamp(x, lo, hi) == IF x < lo THEN lo ELSE IF x > hi THEN hi ELSE x

\* (mutant) the zoom is moved and clamped at each scroll event in turn
RECURSIVE ZoomEach(_, _)
ZoomEach(z, seq) ==
    IF seq = <<>> THEN z
    ELSE ZoomEach(Clamp(z + Head(seq) * ZoomSensitivity, ZoomMin, ZoomMax), Tail(seq))

Zoom_PerEvent(s, in) == [s EXCEPT !.zoom = ZoomEach(@, in.scroll)]

Zoom(s, in) ==
    LET zoom_delta == Sum(in.scroll)
    IN  IF zoom_delta # 0
        THEN [s EXCEPT !.zoom = Clamp(@ + zoom_delta * ZoomSensitivity, ZoomMin, ZoomMax)]
        ELSE s

----------------------------------------------------------------------------
(* CentralPanel: the loop over the objects, lines 145-265 *)

\* position * 10.0 * zoom and scale * 20.0 * zoom, in px
WorldToPx(x, z) == (x * PosScale * z) \div ZoomUnit
SizePx(sc, z) == (sc * SizeScale * z) \div ZoomUnit
\* delta / (10.0 * zoom), in world units
PxToWorld(d, z) == (d * ZoomUnit) \div (PosScale * z)

Center(s, obj) ==
    << RectLeftTop[1] + s.view_offset[1] + WorldToPx(obj.position[1], s.zoom),
       RectLeftTop[2] + s.view_offset[2] + WorldToPx(obj.position[2], s.zoom) >>

\* egui::Rect::from_center_size
FromCenterSize(center, size) ==
    [ min |-> <<center[1] - size[1] \div 2, center[2] - size[2] \div 2>>,
      max |-> <<center[1] + size[1] \div 2, center[2] + size[2] \div 2>> ]

\* egui::Rect::contains
Contains(r, p) ==
    /\ r.min[1] <= p[1] /\ p[1] <= r.max[1]
    /\ r.min[2] <= p[2] /\ p[2] <= r.max[2]

Bounding(s, obj) ==
    FromCenterSize(Center(s, obj),
                   <<SizePx(obj.scale[1], s.zoom), SizePx(obj.scale[2], s.zoom)>>)

\* lines 157-165
DragStart(s, i, in) ==
    IF /\ in.drag_started
       /\ in.pointer_pos # None
       /\ Contains(Bounding(s, Obj(s.objects, i)), Unwrap(in.pointer_pos))
    THEN [s EXCEPT !.dragging = Some(i),
                   !.drag_start = in.pointer_pos,
                   !.selected = Some(i)]
    ELSE s

\* (mutant) the anchor stays where the drag began: every frame applies the
\* displacement from it
DragMove_AnchorKept(s, i, in) ==
    IF in.pointer_pos # None /\ s.drag_start # None
    THEN LET pos == Unwrap(in.pointer_pos)
             start == Unwrap(s.drag_start)
         IN  [s EXCEPT !.objects[i + 1].position =
                           << @[1] + PxToWorld(pos[1] - start[1], s.zoom),
                              @[2] + PxToWorld(pos[2] - start[2], s.zoom) >>]
    ELSE s

\* lines 169-174
DragMove(s, i, in) ==
    IF in.pointer_pos # None /\ s.drag_start # None
    THEN LET pos == Unwrap(in.pointer_pos)
             start == Unwrap(s.drag_start)
         IN  [s EXCEPT !.objects[i + 1].position =
                           << @[1] + PxToWorld(pos[1] - start[1], s.zoom),
                              @[2] + PxToWorld(pos[2] - start[2], s.zoom) >>,
                       !.drag_start = Some(pos)]
    ELSE s

\* (mutant) the release clears the dragging index and leaves the anchor
DragRelease_AnchorLeft(s, in) ==
    IF in.drag_released
    THEN [s EXCEPT !.dragging = None]
    ELSE s

\* lines 177-180
DragRelease(s, in) ==
    IF in.drag_released
    THEN [s EXCEPT !.dragging = None, !.drag_start = None]
    ELSE s

\* lines 168-181
DragContinue(s, i, in) ==
    IF s.dragging = Some(i) THEN DragRelease(DragMove(s, i, in), in) ELSE s

\* lines 202-215
SecondaryPan(s, in) ==
    IF in.secondary_down
    THEN IF in.pointer_pos # None
         THEN LET current == Unwrap(in.pointer_pos)
              IN  IF s.pan_start # None
                  THEN LET start == Unwrap(s.pan_start)
                       IN  [s EXCEPT !.view_offset = << @[1] + (current[1] - start[1]),
                                                        @[2] + (current[2] - start[2]) >>,
                                     !.pan_start = Some(current)]
                  ELSE [s EXCEPT !.pan_start = Some(current)]
         ELSE s
    ELSE [s EXCEPT !.pan_start = None]

\* lines 217-229: the object's image is drawn and the iteration ends
DrawsImage(s, obj) ==
    obj.image_path # None /\ Unwrap(obj.image_path) \in DOMAIN s.image_cache

\* lines 231-245
KeyPan(s, in) ==
    LET dy == (IF "W" \in in.keys THEN PanStep ELSE 0) - (IF "S" \in in.keys THEN PanStep ELSE 0)
        dx == (IF "A" \in in.keys THEN PanStep ELSE 0) - (IF "D" \in in.keys THEN PanStep ELSE 0)
    IN  [s EXCEPT !.view_offset = <<@[1] + dx, @[2] + dy>>]

\* lines 217-245: the image and `continue`, or the key pan and the outline
ImageOrKeyPan(s, i, in) ==
    IF DrawsImage(s, Obj(s.objects, i)) THEN s ELSE KeyPan(s, in)

\* One iteration of the loop, for object i
LoopBody(s, i, in) ==
    ImageOrKeyPan(SecondaryPan(DragContinue(DragStart(s, i, in), i, in), in), i, in)

RECURSIVE Loop(_, _, _)
Loop(s, i, in) ==
    IF i >= Len(s.objects) THEN s ELSE Loop(LoopBody(s, i, in), i + 1, in)

\* (mutant) the key pan is applied once more after the loop, whatever the
\* number of objects
Canvas_PanAfterLoop(s, in) == KeyPan(Loop(Zoom(s, in), 0, in), in)

Canvas(s, in) == Loop(Zoom(s, in), 0, in)

----------------------------------------------------------------------------
(* eframe::App::update: one frame *)

\* A panic in the inspector ends the frame and the process
CentralPanel(s, in) == IF s.panicked THEN s ELSE Canvas(s, in)

Frame(s, in) == CentralPanel(Inspector(Hierarchy(s, in), in), in)

Abs(x) == IF x < 0 THEN -x ELSE x

\* The frames the model explores: coordinates within the bounds.
Bounded(s) ==
    /\ \A k \in 1..Len(s.objects) :
          Abs(s.objects[k].position[1]) <= MaxCoord /\ Abs(s.objects[k].position[2]) <= MaxCoord
    /\ Abs(s.view_offset[1]) <= MaxOffset /\ Abs(s.view_offset[2]) <= MaxOffset

\* What egui can report in the current state: a drag starts only when none
\* is in progress and ends only when one is; the canvas has a pointer
\* position exactly while it is interacted with; a label exists for each
\* object; the inspector's widgets exist while an object is selected.
WellFormed(in) ==
    /\ in.drag_started => ~canvas_drag
    /\ in.drag_released => canvas_drag
    /\ (in.pointer_pos # None) <=> (canvas_drag \/ in.drag_started)
    /\ in.label # None => InRange(objects, Unwrap(in.label))
    /\ in.add => Len(objects) < MaxObjects
    /\ in.edit # None => selected # None
    /\ Len(in.scroll) <= MaxScrollEvents

\* The kind of input a frame carries, for the history variable
Kind(in) ==
    CASE in.secondary_down -> "secondary"
      [] in.label # None   -> "label"
      [] in.add            -> "add"
      [] in.save           -> IF in.save_io = "ok" THEN "save" ELSE "save_err"
      [] in.load           -> IF in.load_io # "ok" THEN "load_err"
                              ELSE IF last = "save" THEN "reload"
                              ELSE "load"
      [] in.edit # None    -> "edit"
      [] in.scroll # <<>>  -> "scroll"
      [] in.keys # {}      -> "keys"
      [] in.drag_started   -> "drag_start"
      [] in.drag_released  -> "drag_release"
      [] OTHER             -> IF in.pointer_pos # None THEN "drag_move" ELSE "idle"

\* The history of the current drag after a frame that ends in s.  A press
\* that leaves an object dragging starts it; it is followed through the
\* frames that carry nothing but the pointer, at the same zoom, and dropped
\* otherwise.
Track(s, in) ==
    IF s.panicked \/ s.dragging = None \/ s.drag_start = None
       \/ ~InRange(s.objects, Unwrap(s.dragging))
    THEN None
    ELSE IF in.drag_started
    THEN Some([ anchor   |-> Unwrap(s.drag_start),
                position |-> Obj(s.objects, Unwrap(s.dragging)).position,
                zoom     |-> s.zoom,
                frames   |-> 0 ])
    ELSE IF \/ drag_origin = None
            \/ Kind(in) # "drag_move"
            \/ s.dragging # dragging
            \/ s.zoom # Unwrap(drag_origin).zoom
    THEN None
    ELSE Some([ Unwrap(drag_origin) EXCEPT
                    !.frames = IF @ < MaxTracked THEN @ + 1 ELSE @ ])

Update(in) ==
    /\ ~panicked
    /\ WellFormed(in)
    /\ \E s \in { Frame(Snapshot, in) } :
           /\ Bounded(s)
           /\ selected' = s.selected
           /\ objects' = s.objects
           /\ zoom' = s.zoom
           /\ dragging' = s.dragging
           /\ drag_start' = s.drag_start
           /\ view_offset' = s.view_offset
           /\ pan_start' = s.pan_start
           /\ image_cache' = s.image_cache
           /\ file' = s.file
           /\ panicked' = s.panicked
           /\ decoded' = s.decoded
           /\ drag_origin' = Track(s, in)
    /\ canvas_drag' = ((canvas_drag \/ in.drag_started) /\ ~in.drag_released)
    /\ last' = Kind(in)
    /\ before' = Len(objects)
    /\ prev_pointer' = in.pointer_pos
    /\ UNCHANGED images

----------------------------------------------------------------------------
(* The frames, by the input they carry *)

\* The canvas pointer position of a frame that starts no drag
Held == IF canvas_drag THEN { Some(p) : p \in Points } ELSE { None }

SaveOutcomes == { "ok", "create_err", "write_err" }
LoadOutcomes == { "ok", "read_err" }

\* The inspector edits the frames draw from, by widget
NameEdits == { [field |-> "name", value |-> "Star"] }
PositionEdits ==
    { [field |-> "position_x", value |-> 5], [field |-> "position_y", value |-> -10] }
RotationEdits == { [field |-> "rotation", value |-> 1] }
ScaleEdits ==
    { [field |-> "scale_x", value |-> 5], [field |-> "scale_y", value |-> 10] }

ScrollSeqs ==
    UNION { [1..n -> ScrollDeltas] : n \in 1..MaxScrollEvents }

Keys == { "W", "S", "A", "D" }

FrameIdle ==
    /\ ~canvas_drag
    /\ Update(NoInput)

ClickLabel ==
    \E i \in 0..(Len(objects) - 1), pp \in Held :
        Update([NoInput EXCEPT !.label = Some(i), !.pointer_pos = pp])

ClickAdd ==
    \E pp \in Held :
        Update([NoInput EXCEPT !.add = TRUE, !.pointer_pos = pp])

ClickSave ==
    \E io \in SaveOutcomes, pp \in Held :
        Update([NoInput EXCEPT !.save = TRUE, !.save_io = io, !.pointer_pos = pp])

ClickLoad ==
    \E io \in LoadOutcomes, pp \in Held :
        Update([NoInput EXCEPT !.load = TRUE, !.load_io = io, !.pointer_pos = pp])

EditName ==
    \E e \in NameEdits, pp \in Held :
        Update([NoInput EXCEPT !.edit = Some(e), !.pointer_pos = pp])

EditPosition ==
    \E e \in PositionEdits, pp \in Held :
        Update([NoInput EXCEPT !.edit = Some(e), !.pointer_pos = pp])

EditRotation ==
    \E e \in RotationEdits, pp \in Held :
        Update([NoInput EXCEPT !.edit = Some(e), !.pointer_pos = pp])

EditScale ==
    \E e \in ScaleEdits, pp \in Held :
        Update([NoInput EXCEPT !.edit = Some(e), !.pointer_pos = pp])

Scroll ==
    \E sc \in ScrollSeqs, pp \in Held :
        Update([NoInput EXCEPT !.scroll = sc, !.pointer_pos = pp])

KeysDown ==
    \E ks \in (SUBSET Keys) \ {{}}, pp \in Held :
        Update([NoInput EXCEPT !.keys = ks, !.pointer_pos = pp])

CanvasDragStart ==
    /\ ~canvas_drag
    /\ \E p \in Points :
        Update([NoInput EXCEPT !.drag_started = TRUE, !.pointer_pos = Some(p)])

\* A press on the canvas while directional keys are held
KeysPress ==
    /\ ~canvas_drag
    /\ \E ks \in (SUBSET Keys) \ {{}}, p \in Points :
          Update([NoInput EXCEPT !.drag_started = TRUE, !.keys = ks,
                                 !.pointer_pos = Some(p)])

CanvasDragMove ==
    /\ canvas_drag
    /\ \E p \in Points : Update([NoInput EXCEPT !.pointer_pos = Some(p)])

CanvasDragRelease ==
    /\ canvas_drag
    /\ \E p \in Points :
        Update([NoInput EXCEPT !.drag_released = TRUE, !.pointer_pos = Some(p)])

SecondaryPress ==
    /\ ~canvas_drag
    /\ \E p \in Points :
        Update([NoInput EXCEPT !.drag_started = TRUE, !.secondary_down = TRUE,
                               !.pointer_pos = Some(p)])

SecondaryMove ==
    /\ canvas_drag
    /\ \E p \in Points :
          Update([NoInput EXCEPT !.secondary_down = TRUE, !.pointer_pos = Some(p)])

\* Add Object or Load Scene clicked while the secondary button holds a drag
\* of the canvas
SecondaryAdd ==
    /\ canvas_drag
    /\ \E p \in Points :
          Update([NoInput EXCEPT !.add = TRUE, !.secondary_down = TRUE,
                                 !.pointer_pos = Some(p)])

SecondaryLoad ==
    /\ canvas_drag
    /\ \E io \in LoadOutcomes, p \in Points :
          Update([NoInput EXCEPT !.load = TRUE, !.load_io = io,
                                 !.secondary_down = TRUE, !.pointer_pos = Some(p)])

----------------------------------------------------------------------------
(* The world outside the process *)

\* A scene written by hand: one textured object
HandWritten ==
    << [ id |-> 7, name |-> "Sprite", position |-> <<5, 10>>, rotation |-> -3,
         scale |-> <<5, 10>>, image_path |-> Some(PngPath) ] >>

\* What another program can leave in scene.ron: nothing (the file deleted),
\* text that is no RON, a list whose object lacks fields, a valid scene.
ExternalFiles ==
    { None,
      Some(<<"garbage">>),
      Some(<<"[", "(", "id", ":", "0", ")", "]">>),
      Some(to_string(HandWritten)) }

ImageVersions == { 0, 1, 2 }

ExternalScene ==
    /\ ~panicked
    /\ \E f \in ExternalFiles : file # f /\ file' = f
    /\ last' = "external"
    /\ decoded' = {}
    /\ before' = Len(objects)
    /\ UNCHANGED <<selected, objects, zoom, dragging, drag_start, view_offset,
                   pan_start, image_cache, images, canvas_drag, panicked,
                   prev_pointer, drag_origin>>

ExternalImage ==
    /\ ~panicked
    /\ \E v \in ImageVersions :
          /\ images[PngPath] # v
          /\ images' = [images EXCEPT ![PngPath] = v]
    /\ last' = "external"
    /\ decoded' = {}
    /\ before' = Len(objects)
    /\ UNCHANGED <<selected, objects, zoom, dragging, drag_start, view_offset,
                   pan_start, image_cache, file, canvas_drag, panicked,
                   prev_pointer, drag_origin>>

----------------------------------------------------------------------------
(* StarEditor::default() *)

Init ==
    /\ selected = None
    /\ objects = <<>>
    /\ zoom = ZoomInit
    /\ dragging = None
    /\ drag_start = None
    /\ view_offset = <<0, 0>>
    /\ pan_start = None
    /\ image_cache = <<>>
    /\ file = None
    /\ images = [p \in Paths |-> 0]
    /\ canvas_drag = FALSE
    /\ panicked = FALSE
    /\ last = "init"
    /\ decoded = {}
    /\ before = 0
    /\ prev_pointer = None
    /\ drag_origin = None

Next ==
    \/ FrameIdle
    \/ ClickLabel
    \/ ClickAdd
    \/ ClickSave
    \/ ClickLoad
    \/ EditName
    \/ EditPosition
    \/ EditRotation
    \/ EditScale
    \/ Scroll
    \/ KeysDown
    \/ KeysPress
    \/ CanvasDragStart
    \/ CanvasDragMove
    \/ CanvasDragRelease
    \/ SecondaryPress
    \/ SecondaryMove
    \/ SecondaryAdd
    \/ SecondaryLoad
    \/ ExternalScene
    \/ ExternalImage

Spec == Init /\ [][Next]_vars

----------------------------------------------------------------------------
(* Restrictions of Next to the frames a group of properties is about.  Each *)
(* runs the whole of update() on every frame; they differ in the inputs the *)
(* frames may carry.                                                        *)

\* Selection and dragging, with the scene reloaded under them
NextDrag ==
    \/ ClickLabel
    \/ ClickAdd
    \/ ClickLoad
    \/ CanvasDragStart
    \/ CanvasDragMove
    \/ CanvasDragRelease
    \/ ExternalScene

SpecDrag == Init /\ [][NextDrag]_vars

\* The scene and its file: Add Object, selection, Save Scene, Load Scene
NextPersist ==
    \/ ClickLabel
    \/ ClickAdd
    \/ ClickSave
    \/ ClickLoad
    \/ ExternalScene

SpecPersist == Init /\ [][NextPersist]_vars

\* The inspector's textures: selection, scenes with image paths, image files
\* that change on disk
NextTexture ==
    \/ FrameIdle
    \/ ClickLabel
    \/ ClickAdd
    \/ ClickLoad
    \/ ExternalScene
    \/ ExternalImage

SpecTexture == Init /\ [][NextTexture]_vars

\* Panning with the directional keys, over scenes that grow and are emptied
NextKeys ==
    \/ ClickAdd
    \/ ClickLoad
    \/ KeysDown

SpecKeys == Init /\ [][NextKeys]_vars

\* Panning with the secondary button, over scenes that grow and are emptied
NextPan ==
    \/ ClickAdd
    \/ SecondaryPress
    \/ SecondaryMove
    \/ SecondaryAdd
    \/ SecondaryLoad
    \/ CanvasDragRelease

SpecPan == Init /\ [][NextPan]_vars

\* The scene and a file that only Save Scene writes
NextScene ==
    \/ ClickLabel
    \/ ClickAdd
    \/ ClickSave
    \/ ClickLoad

SpecScene == Init /\ [][NextScene]_vars

\* Zooming and dragging objects over the canvas
NextMove ==
    \/ ClickAdd
    \/ Scroll
    \/ CanvasDragStart
    \/ CanvasDragMove
    \/ CanvasDragRelease

SpecMove == Init /\ [][NextMove]_vars

\* Pressing on objects, with and without directional keys held
NextPress ==
    \/ ClickAdd
    \/ KeysPress
    \/ CanvasDragStart
    \/ CanvasDragMove
    \/ CanvasDragRelease

SpecPress == Init /\ [][NextPress]_vars

----------------------------------------------------------------------------
(* Properties *)

\* C1: no operation is fatal: the process never panics, and the selected
\* index, when set, is a valid index into the object list (so the
\* inspector's self.objects[i] stays in range).
C1_SelectionInRange ==
    /\ ~panicked
    /\ selected # None => InRange(objects, Unwrap(selected))

\* C2: at the end of every frame at most one object is selected and at most
\* one is dragging (both are Options), and an object that is dragging is the
\* selected one.
C2_DraggingIsSelected ==
    /\ Len(selected) <= 1
    /\ Len(dragging) <= 1
    /\ dragging # None => selected = dragging

\* The unrotated bounding box of the claim, written out: centre = origin +
\* pan_offset + position * 10 * zoom, size = scale * 20 * zoom.
BoxContains(obj, p) ==
    LET cx == RectLeftTop[1] + view_offset[1] + (obj.position[1] * 10 * zoom) \div 100
        cy == RectLeftTop[2] + view_offset[2] + (obj.position[2] * 10 * zoom) \div 100
        hw == ((obj.scale[1] * 20 * zoom) \div 100) \div 2
        hh == ((obj.scale[2] * 20 * zoom) \div 100) \div 2
    IN  /\ cx - hw <= p[1] /\ p[1] <= cx + hw
        /\ cy - hh <= p[2] /\ p[2] <= cy + hh

\* The objects (0-based) whose box contains p, in the current state
HitSet(p) == { i \in 0..(Len(objects) - 1) : BoxContains(Obj(objects, i), p) }
Max(S) == CHOOSE m \in S : \A k \in S : k <= m

\* A frame in which a press on the canvas at p is reported, keys ks held
Press(p, ks) ==
    Update([NoInput EXCEPT !.drag_started = TRUE, !.keys = ks,
                           !.pointer_pos = Some(p)])

\* C7: on a drag-start frame, the highest-index object whose box contains
\* the pointer ends the frame dragging and selected, with the pointer as the
\* anchor; no object containing the pointer is moved.
C7_LastHitWins ==
    [][ \A p \in Points, ks \in SUBSET Keys :
          (Press(p, ks) /\ HitSet(p) # {}) =>
              /\ dragging' = Some(Max(HitSet(p)))
              /\ selected' = Some(Max(HitSet(p)))
              /\ drag_start' = Some(p)
              /\ Len(objects') = Len(objects)
              /\ \A i \in HitSet(p) : Obj(objects', i) = Obj(objects, i) ]_vars

\* C8: after a frame in which the release of the button is reported,
\* dragging and the anchor are empty and the selection is what it was.
C8_ReleaseClears ==
    [][ (last' = "drag_release" /\ ~panicked') =>
            /\ dragging' = None
            /\ drag_start' = None
            /\ selected' = selected ]_vars

\* C5: from the initial zoom 1.0, after any sequence of frames with any
\* scroll deltas, zoom lies in [0.1, 5.0] (10 .. 500 hundredths).
C5_ZoomClamped == zoom >= 10 /\ zoom <= 500

\* A scroll frame whose sum would leave the range has ended at a limit.
C5_Witness == last = "scroll" /\ zoom = 500

MoveFrame(p) == Update([NoInput EXCEPT !.pointer_pos = Some(p)])

\* (pointer displacement) / (10 * zoom), per coordinate, on the state's zoom
Displaced(pos, from, to) ==
    << pos[1] + ((to[1] - from[1]) * 100) \div (10 * zoom),
       pos[2] + ((to[2] - from[2]) * 100) \div (10 * zoom) >>

\* C6: in a frame of a drag that only moves the pointer, to p, the dragged
\* object moves by (p - anchor) / (10 * zoom) and the anchor becomes p; so
\* over the frames of a drag at constant zoom its position is the position
\* at the press plus (p - first anchor) / (10 * zoom): the displacement from
\* the first anchor is applied once.
C6_DeltaTracking ==
    [][ \A p \in Points :
          ( /\ last' = "drag_move"
            /\ MoveFrame(p)
            /\ dragging # None /\ drag_start # None
            /\ InRange(objects, Unwrap(dragging)) ) =>
              /\ Obj(objects', Unwrap(dragging)).position =
                     Displaced(Obj(objects, Unwrap(dragging)).position,
                               Unwrap(drag_start), p)
              /\ drag_start' = Some(p)
              /\ drag_origin # None =>
                     /\ drag_origin' # None
                     /\ Obj(objects', Unwrap(dragging)).position =
                            Displaced(Unwrap(drag_origin).position,
                                      Unwrap(drag_origin).anchor, p) ]_vars

\* The second frame of a drag after the press: the pointer went from the
\* anchor A to B and then to C, C is not A, and the object has moved.
C6_Witness ==
    /\ last = "drag_move"
    /\ drag_origin # None
    /\ Unwrap(drag_origin).frames = 2
    /\ drag_start # Some(Unwrap(drag_origin).anchor)
    /\ Obj(objects, Unwrap(dragging)).position # Unwrap(drag_origin).position

AddFrame(pp) == Update([NoInput EXCEPT !.add = TRUE, !.pointer_pos = pp])

\* The object the claim describes for index n
DefaultNames == <<"Object 0", "Object 1", "Object 2", "Object 3">>
DefaultAt(n) ==
    [ id |-> n, name |-> DefaultNames[n + 1], position |-> <<0, 0>>,
      rotation |-> 0, scale |-> <<1, 1>>, image_path |-> <<>> ]

\* C3: a frame with Add Object clicked appends one object at index n = the
\* number of objects before, with id n, name "Object n", position (0,0),
\* rotation 0, scale (1,1) and no image path; the objects before it are the
\* same, in the same order.
C3_AddAppendsDefault ==
    [][ \A pp \in Held :
          AddFrame(pp) => objects' = Append(objects, DefaultAt(Len(objects))) ]_vars

\* An object has been added behind one that is not a default object.
C3_Witness ==
    /\ last = "add"
    /\ before = 1
    /\ Len(objects) = 2
    /\ objects[1].id = 7 /\ objects[1].name = "Sprite"
    /\ objects[2].id = 1 /\ objects[2].name = "Object 1"

SaveFrame(io, pp) ==
    Update([NoInput EXCEPT !.save = TRUE, !.save_io = io, !.pointer_pos = pp])
LoadFrame(io, pp) ==
    Update([NoInput EXCEPT !.load = TRUE, !.load_io = io, !.pointer_pos = pp])

\* C4: after a frame in which Save Scene wrote a non-empty scene, what
\* load_scene reads back from the file is the list that was saved; and a
\* Load Scene frame that directly follows leaves the scene with that list:
\* same count, order and field values.
C4_RoundTrip ==
    [][ \A pp \in Held :
          /\ (SaveFrame("ok", pp) /\ objects # <<>>) =>
                 /\ file' # None
                 /\ load_scene(file', "ok") = objects
          /\ (last = "save" /\ LoadFrame("ok", pp) /\ objects # <<>>) =>
                 /\ objects' = objects
                 /\ ~panicked' ]_vars

\* A scene of two objects, the first with no default field value, has been
\* saved and loaded back.
C4_Witness ==
    /\ last = "reload"
    /\ Len(objects) = 2
    /\ objects[1] = [ id |-> 7, name |-> "Sprite", position |-> <<5, 10>>,
                       rotation |-> -3, scale |-> <<5, 10>>,
                       image_path |-> <<"a.png">> ]
    /\ objects[2].name = "Object 1"

\* Files that hold no scene: none, an empty one, text that is no RON, a list
\* whose object lacks fields
NoScene ==
    { <<>>, << <<>> >>, << <<"garbage">> >>,
      << <<"[", "(", "id", ":", "0", ")", "]">> >> }

\* The fields of the editor after the frame are those of s
EndsAs(s) ==
    /\ objects' = s.objects
    /\ selected' = s.selected
    /\ dragging' = s.dragging
    /\ image_cache' = s.image_cache
    /\ panicked' = s.panicked

\* C9: a Load Scene frame on a file that is missing, unreadable or holds no
\* scene leaves the object list empty, the file as it was, and the editor as
\* a load of a file holding the empty list "[]" would.
C9_FailedLoadIsEmpty ==
    [][ \A io \in LoadOutcomes, pp \in Held :
          (LoadFrame(io, pp) /\ (file \in NoScene \/ io # "ok")) =>
              /\ objects' = <<>>
              /\ file' = file
              /\ EndsAs(Frame([Snapshot EXCEPT !.file = << <<"[", "]">> >>],
                               [NoInput EXCEPT !.load = TRUE, !.pointer_pos = pp])) ]_vars

\* A scene that held objects was replaced by the empty list on loading a
\* file that is no RON.
C9_Witness ==
    /\ last = "load"
    /\ file = << <<"garbage">> >>
    /\ before > 0
    /\ objects = <<>>
    /\ ~panicked

\* C10: a path the cache holds is not decoded again in any later frame, and
\* its entry (one per path: the cache is a map) stays in the cache with the
\* same texture, whatever becomes of the image file.
C10_CacheKeeps ==
    [][ \A p \in DOMAIN image_cache :
          /\ p \notin decoded'
          /\ p \in DOMAIN image_cache'
          /\ image_cache'[p] = image_cache[p] ]_vars

\* The selected object's image was cached, the file has changed since, and
\* a frame has passed with the inspector showing the object.
C10_Witness ==
    /\ last = "idle"
    /\ selected # None /\ InRange(objects, Unwrap(selected))
    /\ Obj(objects, Unwrap(selected)).image_path = <<"a.png">>
    /\ "a.png" \in DOMAIN image_cache
    /\ image_cache["a.png"] = 1
    /\ images["a.png"] = 2

KeysFrame(ks, pp) == Update([NoInput EXCEPT !.keys = ks, !.pointer_pos = pp])

\* The step of the claim for one key: W y+10, S y-10, A x+10, D x-10
KeyStep(k) ==
    CASE k = "W" -> <<0, 10>>
      [] k = "S" -> <<0, -10>>
      [] k = "A" -> <<10, 0>>
      [] k = "D" -> <<-10, 0>>

\* C11: a frame with a single directional key held and at least one object
\* in the scene changes view_offset by exactly one step of 10 px along the
\* key's axis.
C11_OneStepPerFrame ==
    [][ \A k \in Keys, pp \in Held :
          (KeysFrame({k}, pp) /\ objects # <<>>) =>
              view_offset' = << view_offset[1] + KeyStep(k)[1],
                                view_offset[2] + KeyStep(k)[2] >> ]_vars

\* C12: a step that begins and ends with zero objects leaves view_offset
\* unchanged, whatever keys are held.
C12_NoObjectsNoPan ==
    [][ (objects = <<>> /\ objects' = <<>>) => view_offset' = view_offset ]_vars

\* A frame with keys held has been rendered on the empty scene.
C12_Witness ==
    /\ last = "keys"
    /\ before = 0
    /\ objects = <<>>
    /\ view_offset = <<0, 0>>

\* C13: in a frame with the secondary button held, the pointer on the
\* canvas, a pan anchor set and at least one object to draw, view_offset
\* grows by (the pointer position) - (the pointer position of the previous
\* frame), once, and the anchor becomes the pointer position.
C13_SecondaryPanOnce ==
    [][ ( /\ last' = "secondary" /\ ~panicked'
          /\ prev_pointer' # None
          /\ pan_start # None
          /\ objects' # <<>> ) =>
            /\ prev_pointer # None
            /\ view_offset' =
                   << view_offset[1] + (Unwrap(prev_pointer')[1] - Unwrap(prev_pointer)[1]),
                      view_offset[2] + (Unwrap(prev_pointer')[2] - Unwrap(prev_pointer)[2]) >>
            /\ pan_start' = prev_pointer' ]_vars

\* The press of the secondary button on the canvas at p
SecondaryPressAt(p) ==
    Update([NoInput EXCEPT !.secondary_down = TRUE, !.drag_started = TRUE,
                           !.pointer_pos = Some(p)])

\* C14: after a frame in which the secondary button is not held the pan
\* anchor is empty, and the first frame of a secondary drag leaves
\* view_offset as it was.
C14_ReleaseResetsAnchor ==
    [][ /\ (last' \notin {"secondary", "external"} /\ ~panicked') => pan_start' = None
        /\ \A p \in Points :
              SecondaryPressAt(p) => view_offset' = view_offset ]_vars

\* C15: a frame that only selects an object in the hierarchy, or that only
\* renders (no click, no edit, no drag), leaves every field of every object
\* as it was; in particular an image_path that is None stays None.
C15_RenderKeepsObjects ==
    [][ (last' \in {"label", "idle"} /\ ~panicked') => objects' = objects ]_vars

ScrollFrame(sc, pp) == Update([NoInput EXCEPT !.scroll = sc, !.pointer_pos = pp])

\* The sum of the first n deltas of a frame
RECURSIVE Total(_, _)
Total(sc, n) == IF n = 0 THEN 0 ELSE Total(sc, n - 1) + sc[n]

\* C16: the zoom after a frame is clamp(zoom + 0.01 * (sum of the frame's
\* scroll deltas), 0.1, 5.0), in hundredths; a frame whose deltas sum to
\* zero leaves the zoom as it was.
C16_ZoomFromSum ==
    [][ \A sc \in ScrollSeqs, pp \in Held :
          (last' = "scroll" /\ ScrollFrame(sc, pp)) =>
              /\ zoom' = IF zoom + Total(sc, Len(sc)) < 10 THEN 10
                          ELSE IF zoom + Total(sc, Len(sc)) > 500 THEN 500
                          ELSE zoom + Total(sc, Len(sc))
              /\ Total(sc, Len(sc)) = 0 => zoom' = zoom ]_vars

\* A frame with scroll events has left the zoom at 1.0: from 1.0 every
\* non-zero sum of the model's deltas ends at a limit, and no frame leads
\* from a limit back to 1.0, so the frame's deltas summed to zero, where
\* clamping after each event would have ended at a limit.
C16_Witness == last = "scroll" /\ zoom = 100 /\ objects # <<>>

\* C17: while scene.ron is written only by Save Scene, the id of every
\* object is its index in the list (so the ids are pairwise distinct).
C17_IdIsIndex ==
    \A k \in 1..Len(objects) : objects[k].id = k - 1

\* Two objects have come back from a file that Save Scene wrote.
C17_Witness ==
    /\ last \in {"load", "reload"}
    /\ file # None
    /\ Len(objects) = 2
    /\ objects[1].id = 0 /\ objects[2].id = 1

\* C18: the drag anchor is set exactly when a dragging index is set.
C18_AnchorIffDragging == (drag_start # None) <=> (dragging # None)

\* An object created at (0,0) has been dragged elsewhere and released: both
\* fields were set by the press and are empty again.
C18_Witness ==
    /\ last = "drag_release"
    /\ dragging = None /\ drag_start = None
    /\ selected # None /\ InRange(objects, Unwrap(selected))
    /\ Obj(objects, Unwrap(selected)).name = "Object 0"
    /\ Obj(objects, Unwrap(selected)).position # <<0, 0>>

====
